---- MODULE Spec2Model ----
(***************************************************************************)
(* The task service of the scheduler back end (backend/tasks): the task    *)
(* table, the five service operations create / list / get / delete /      *)
(* update, and the HTTP answer the router gives for each of them; and the *)
(* user registration of the auth service (backend/auth).                  *)
(***************************************************************************)
EXTENDS Integers, Sequences, FiniteSets, TLC

\* ------------------------------------------------------------------ bounds
\* Largest id the storage hands out in a run; ids are 1..MaxId.
MaxId == 2
\* Largest reading of the server clock; the clock reads 1..MaxTime.
MaxTime == 2
\* Largest id the storage hands out for a user; user ids are 1..MaxUserId.
MaxUserId == 3
\* Number of clients whose requests are in flight at the same time.
NumClients == 2

\* --------------------------------------------------------- HTTP constants
HTTP_200_OK == 200
HTTP_201_CREATED == 201
HTTP_204_NO_CONTENT == 204
HTTP_404_NOT_FOUND == 404
HTTP_422_UNPROCESSABLE_ENTITY == 422
HTTP_500_INTERNAL_SERVER_ERROR == 500
TaskNotFoundDetail == "task Not Found !"

\* ------------------------------------------------------------ value sets
\* Optional[T]: None is the empty tuple, a present value v is <<v>>.
None == <<>>
Some(v) == <<v>>

\* The engines the sessions are bound to (tests/conftest.py, tests/database.py).
Backends == {"sqlite", "postgresql"}

\* Text values of the three text columns, the empty string included.
Titles == {"", "T1"}
Descriptions == {"", "D1"}
Statuses == {"", "pending", "completed"}
\* Due dates (timestamps) a client sends.
DueDates == {5, 6}
\* createdDate values a client may put in a create payload: absent, or a
\* timestamp of its own choosing (0 lies before every reading of the clock).
ClientCreatedDates == {None, Some(0)}
\* id values a client may put in a create payload.
ClientIds == {None, Some(1)}
\* Path parameter task_id of get / delete / update in the requests the
\* clients send: every id the storage can hand out.
RequestIds == 1..MaxId

Opt(S) == {None} \cup {Some(v) : v \in S}

\* schema.TaskBase: the body of POST /task/ once validation has passed.
TaskBase == [id : ClientIds, title : Titles, description : Descriptions,
             status : Statuses, createdDate : ClientCreatedDates,
             dueDate : DueDates]

\* dueDate as the text of a JSON body: two ISO timestamps and a text that is
\* no timestamp.
RawDueDates == {"2024-12-05T00:00:00", "2024-12-06T00:00:00", "soon"}

\* The JSON body of POST /task/ as the client sends it: any of the four
\* required fields may be missing, and dueDate is text still to be parsed
\* (the two optional fields, id and createdDate, are left out of the body).
RawTaskBase == [id : {None}, title : Opt(Titles),
                description : Opt(Descriptions), status : Opt(Statuses),
                createdDate : {None}, dueDate : Opt(RawDueDates)]

\* pydantic's parsing of a datetime field: the timestamp the text stands
\* for, or None when it stands for none.
parse_datetime(text) ==
    CASE text = "2024-12-05T00:00:00" -> Some(5)
      [] text = "2024-12-06T00:00:00" -> Some(6)
      [] OTHER -> None

\* schema.TaskUpdate: the body of PATCH /task/{task_id}; every field optional.
TaskUpdate == [title : Opt(Titles), description : Opt(Descriptions),
               status : Opt(Statuses), dueDate : Opt(DueDates)]

\* The PATCH bodies the clients of the model send: bodies that carry at most
\* one field, and bodies that carry a non-empty value for each of the four.
\* (Every body of TaskUpdate has the effect of a sequence of these.)
Present(request) ==
    {f \in {"title", "description", "status", "dueDate"} : request[f] # None}
PatchBodies ==
    {r \in TaskUpdate :
        \/ Cardinality(Present(r)) <= 1
        \/ /\ Cardinality(Present(r)) = 4
           /\ r.title # Some("") /\ r.description # Some("") /\ r.status # Some("")}

\* Values of the fields of a registration payload.
Usernames == {"u1", "u2"}
Emails == {"a@x.io", "b@x.io"}
Passwords == {"pw1", "pw2"}

\* auth schema.User: the body of a registration once validation has passed.
schema_User == [username : Usernames, email : Emails, password : Passwords]

\* The registration payloads the clients of the model send: for each email
\* two payloads, which differ in username and password.
RegisterBodies ==
    {r \in schema_User :
        (r.username = "u1") <=> ((r.email = "a@x.io") <=> (r.password = "pw1"))}

\* The clients that send requests concurrently.
Clients == 1..NumClients

\* Python truth value of an Optional[str]: None and "" are falsy.
TruthyStr(o) == o # None /\ o[1] # ""
\* Python truth value of an Optional[datetime]: only None is falsy.
TruthyDate(o) == o # None

VARIABLES
    backend,        \* the engine behind the session
    task_table,     \* rows of table "task", in the order a bare SELECT gives
    task_id_seq,    \* postgresql: last value of the id sequence of the table
    now,            \* datetime.now() of the server
    response,       \* the answer to the last request
    returned_ids,   \* ids returned by the creates so far
    user_table,     \* rows of table "user"
    user_id_seq,    \* postgresql: last value of the id sequence of "user"
    registering,    \* per client: the registration its session has in flight
    supplied,       \* per stored user id: the password the client supplied
    updating,       \* per client: the update its session has in flight
    commit_log,     \* the clients whose updates committed, in commit order
    raced           \* the clients whose row was deleted after they read it

task_vars == <<task_table, task_id_seq, now, returned_ids>>
auth_vars == <<user_table, user_id_seq, registering, supplied>>
race_vars == <<updating, commit_log, raced>>
vars == <<backend, response, task_vars, auth_vars, race_vars>>

\* -------------------------------------------------------------- storage
Max(S) == CHOOSE x \in S : \A y \in S : y <= x

StoredIds(table) == {table[i].id : i \in 1..Len(table)}

\* The id the engine gives a row inserted without an id.
\*   sqlite: INTEGER PRIMARY KEY without the AUTOINCREMENT keyword is the
\*           rowid: one more than the largest rowid in the table.
\*   postgresql: SERIAL, the next value of the sequence.
NextId(be, table, seq) ==
    IF be = "sqlite" THEN Max(StoredIds(table) \cup {0}) + 1 ELSE seq + 1

\* As FirstById with the filter left out: query(Task).first().
FirstById_NoFilter(table, task_id) ==
    IF table # <<>> THEN Some(table[1]) ELSE None

\* database.query(Task).filter_by(id=task_id).first()
FirstById(table, task_id) ==
    LET matching == SelectSeq(table, LAMBDA t : t.id = task_id)
    IN IF matching = <<>> THEN None ELSE Some(Head(matching))

\* As DeleteById with the comparison inverted: filter(Task.id != task_id).
DeleteById_Inverted(table, task_id) ==
    SelectSeq(table, LAMBDA t : t.id = task_id)

\* database.query(Task).filter(Task.id == task_id).delete()
DeleteById(table, task_id) == SelectSeq(table, LAMBDA t : t.id # task_id)

\* models.Task(title=..., description=..., status=..., createdDate=..., dueDate=...)
Task(id, title, description, status, createdDate, dueDate) ==
    [id |-> id, title |-> title, description |-> description,
     status |-> status, createdDate |-> createdDate, dueDate |-> dueDate]

\* ------------------------------------------------------- service results
\* `return value` of a service function: value is the sequence of the task
\* records returned (one record for a task, the rows in order for a list).
Return(value) ==
    [raised |-> FALSE, exception |-> "", status_code |-> 0, detail |-> "",
     value |-> value, is_none |-> FALSE]

\* A service function that ends without a return statement, or returns what
\* a query gave when it gave nothing: the value is None.
ReturnNone ==
    [raised |-> FALSE, exception |-> "", status_code |-> 0, detail |-> "",
     value |-> <<>>, is_none |-> TRUE]

\* `raise HTTPException(status_code=..., detail=...)`.
HTTPException(status_code, detail) ==
    [raised |-> TRUE, exception |-> "HTTPException",
     status_code |-> status_code, detail |-> detail,
     value |-> <<>>, is_none |-> FALSE]

\* An exception of the storage layer that no except clause of the service
\* catches: it leaves the service function as it was raised, with no status
\* code and no detail of the service's making.
Raise(exception) ==
    [raised |-> TRUE, exception |-> exception, status_code |-> 0,
     detail |-> "", value |-> <<>>, is_none |-> FALSE]

\* As services_create_new_task with createdDate taken from the request when
\* the request carries one.
services_create_new_task_ClientDate(request, be, table, seq, clock) ==
    LET id == NextId(be, table, seq)
        new_task == Task(id, request.title, request.description,
                         request.status,
                         IF request.createdDate # None
                         THEN request.createdDate[1] ELSE clock,
                         request.dueDate)
    IN [task_table |-> Append(table, new_task),
        task_id_seq |-> IF be = "postgresql" THEN id ELSE seq,
        result |-> Return(<<new_task>>)]

\* As services_create_new_task with dueDate not passed to Task(), so that the
\* column default (datetime.now) fills it.
services_create_new_task_DefaultDue(request, be, table, seq, clock) ==
    LET id == NextId(be, table, seq)
        new_task == Task(id, request.title, request.description,
                         request.status, clock, clock)
    IN [task_table |-> Append(table, new_task),
        task_id_seq |-> IF be = "postgresql" THEN id ELSE seq,
        result |-> Return(<<new_task>>)]

\* services.create_new_task: add, commit, refresh, return the new row.
services_create_new_task(request, be, table, seq, clock) ==
    LET id == NextId(be, table, seq)
        new_task == Task(id, request.title, request.description,
                         request.status, clock, request.dueDate)
    IN [task_table |-> Append(table, new_task),
        task_id_seq |-> IF be = "postgresql" THEN id ELSE seq,
        result |-> Return(<<new_task>>)]

\* As services_get_task_listing with .first() in place of .all(): one row,
\* or None when the table is empty.
services_get_task_listing_First(table) ==
    [task_table |-> table,
     result |-> IF table = <<>> THEN ReturnNone ELSE Return(<<table[1]>>)]

\* The steps of create_new_task at which the storage can fail.
CreateFaults == {"add", "commit"}

\* services.create_new_task in a call in which database.add or
\* database.commit raises: no except clause, so the exception leaves the
\* function as raised; the transaction is rolled back when the session is
\* closed, and on postgresql the id the INSERT drew from the sequence before
\* a failing COMMIT is spent.
services_create_new_task_raises(request, be, table, seq, clock, fault) ==
    [task_table |-> table,
     task_id_seq |-> IF be = "postgresql" /\ fault = "commit"
                     THEN NextId(be, table, seq) ELSE seq,
     result |-> Raise("OperationalError")]

\* services.get_task_listing: query(Task).all(), a list; no write.
services_get_task_listing(table) ==
    [task_table |-> table, result |-> Return(table)]

\* services.get_task_by_id: a query, no write.
services_get_task_by_id(task_id, table) ==
    LET task == FirstById(table, task_id)
    IN [task_table |-> table,
        result |-> IF task = None
                   THEN HTTPException(HTTP_404_NOT_FOUND, TaskNotFoundDetail)
                   ELSE Return(task)]

\* As services_delete_task_by_id raising 404 when no row matched.
services_delete_task_by_id_Strict(task_id, table) ==
    IF task_id \in StoredIds(table)
    THEN [task_table |-> DeleteById(table, task_id), result |-> ReturnNone]
    ELSE [task_table |-> table,
          result |-> HTTPException(HTTP_404_NOT_FOUND, TaskNotFoundDetail)]

\* As services_delete_task_by_id without the commit: the DELETE is rolled back
\* when the session closes.
services_delete_task_by_id_NoCommit(task_id, table) ==
    [task_table |-> table, result |-> ReturnNone]

\* services.delete_task_by_id: bulk delete, commit, return None.
services_delete_task_by_id(task_id, table) ==
    [task_table |-> DeleteById(table, task_id), result |-> ReturnNone]

\* As AssignFields with a rule of transition: a completed task stays so.
AssignFields_NoReopen(task, request) ==
    [task EXCEPT
       !.title = IF TruthyStr(request.title) THEN request.title[1] ELSE @,
       !.description = IF TruthyStr(request.description)
                       THEN request.description[1] ELSE @,
       !.status = IF TruthyStr(request.status) /\ @ # "completed"
                  THEN request.status[1] ELSE @,
       !.dueDate = IF TruthyDate(request.dueDate) THEN request.dueDate[1] ELSE @]

\* As AssignFields with the status assignment guarded by request.title.
AssignFields_WrongGuard(task, request) ==
    [task EXCEPT
       !.title = IF TruthyStr(request.title) THEN request.title[1] ELSE @,
       !.description = IF TruthyStr(request.description)
                       THEN request.description[1] ELSE @,
       !.status = IF TruthyStr(request.title) /\ request.status # None
                  THEN request.status[1] ELSE @,
       !.dueDate = IF TruthyDate(request.dueDate) THEN request.dueDate[1] ELSE @]

\* As AssignFields with the dueDate of the request assigned to createdDate
\* as well.
AssignFields_TouchesCreatedDate(task, request) ==
    [task EXCEPT
       !.title = IF TruthyStr(request.title) THEN request.title[1] ELSE @,
       !.description = IF TruthyStr(request.description)
                       THEN request.description[1] ELSE @,
       !.status = IF TruthyStr(request.status) THEN request.status[1] ELSE @,
       !.createdDate = IF TruthyDate(request.dueDate) THEN request.dueDate[1] ELSE @,
       !.dueDate = IF TruthyDate(request.dueDate) THEN request.dueDate[1] ELSE @]

\* As AssignFields with `is not None` in place of the truth value.
AssignFields_NotNone(task, request) ==
    [task EXCEPT
       !.title = IF request.title # None THEN request.title[1] ELSE @,
       !.description = IF request.description # None
                       THEN request.description[1] ELSE @,
       !.status = IF request.status # None THEN request.status[1] ELSE @,
       !.dueDate = IF request.dueDate # None THEN request.dueDate[1] ELSE @]

\* The four assignments of services.update_task_by_id to the row it read.
AssignFields(task, request) ==
    [task EXCEPT
       !.title = IF TruthyStr(request.title) THEN request.title[1] ELSE @,
       !.description = IF TruthyStr(request.description)
                       THEN request.description[1] ELSE @,
       !.status = IF TruthyStr(request.status) THEN request.status[1] ELSE @,
       !.dueDate = IF TruthyDate(request.dueDate) THEN request.dueDate[1] ELSE @]

\* As UpdateRow with no WHERE clause: every row gets the values of `task`.
UpdateRow_NoWhere(table, task) ==
    [i \in 1..Len(table) |-> [task EXCEPT !.id = table[i].id]]

\* The UPDATE the commit flushes: the row with the primary key of `task`.
UpdateRow(table, task) ==
    [i \in 1..Len(table) |-> IF table[i].id = task.id THEN task ELSE table[i]]

\* As Rewritten with every engine writing the new version behind the rows.
Rewritten_Behind(be, before, after) ==
    SelectSeq(after, LAMBDA t : \E i \in 1..Len(before) : before[i] = t)
       \o SelectSeq(after, LAMBDA t : \A i \in 1..Len(before) : before[i] # t)

\* Where the rows lie after an UPDATE, in the order a SELECT with no ORDER BY
\* scans them (`before` and `after` hold the rows before and after it).
\*   sqlite: the table is scanned in rowid order; the row stays in its place.
\*   postgresql: the UPDATE writes a new version of the row behind the rows
\*           of the heap; the scan meets it last.
Rewritten(be, before, after) ==
    IF be = "postgresql"
    THEN SelectSeq(after, LAMBDA t : \E i \in 1..Len(before) : before[i] = t)
            \o SelectSeq(after, LAMBDA t : \A i \in 1..Len(before) : before[i] # t)
    ELSE after

\* As services_update_task_by_id without the check of the row read: an id
\* that matches no row gets a row of its own.
services_update_task_by_id_Upsert(request, task_id, table) ==
    LET task == FirstById(table, task_id)
    IN IF task = None
       THEN LET created == AssignFields(Task(task_id, "", "", "", 0, 0), request)
            IN [task_table |-> Append(table, created),
                result |-> Return(<<created>>)]
       ELSE LET updated == AssignFields(task[1], request)
            IN [task_table |-> UpdateRow(table, updated),
                result |-> Return(<<updated>>)]

\* services.update_task_by_id
services_update_task_by_id(request, task_id, table) ==
    LET task == FirstById(table, task_id)
    IN IF task = None
       THEN [task_table |-> table,
             result |-> HTTPException(HTTP_404_NOT_FOUND, TaskNotFoundDetail)]
       ELSE LET updated == AssignFields(task[1], request)
            IN [task_table |-> UpdateRow(table, updated),
                result |-> Return(<<updated>>)]

\* ------------------------------------------------------------ auth: users
\* hashing.get_password_hash: the digest of a plaintext password, a value
\* that is no plaintext (the hashing collaborator of the auth service).
get_password_hash(password) == "hash:" \o password

\* As models_User with the password stored as supplied.
models_User_Plaintext(username, email, role, password) ==
    [username |-> username, email |-> email, role |-> role,
     password |-> password]

\* models.User.__init__: the fields of a user before the storage gives it an id.
models_User(username, email, role, password) ==
    [username |-> username, email |-> email, role |-> role,
     password |-> get_password_hash(password)]

\* The steps of new_user_register at which an exception can be raised, and
\* "none" for a call in which nothing fails but what the storage refuses.
Faults == {"none", "construct", "add", "commit", "refresh"}

\* str(e) of the exception a failing step raises.
IntegrityError == "IntegrityError"
CauseOf(fault) == IF fault = "commit" THEN "OperationalError" ELSE fault

\* detail=f"An error occurred while registering the user: {str(e)}"
RegisterErrorDetail(cause) ==
    "An error occurred while registering the user: " \o cause

\* The except branch of new_user_register: rollback, then HTTPException 500.
RegisterFailed(cause) ==
    HTTPException(HTTP_500_INTERNAL_SERVER_ERROR, RegisterErrorDetail(cause))

\* As InsertUser without the unique index on email.
InsertUser_NoUnique(be, table, seq, new_user) ==
    LET id == NextId(be, table, seq)
        row == [id |-> id] @@ new_user
    IN [ok |-> TRUE, row |-> <<row>>, user_table |-> Append(table, row),
        user_id_seq |-> IF be = "postgresql" THEN id ELSE seq]

\* The INSERT and COMMIT the commit of a session with one pending user sends:
\* email is unique, so a row whose email is stored is refused with an
\* IntegrityError (on postgresql the id drawn from the sequence is spent).
InsertUser(be, table, seq, new_user) ==
    LET id == NextId(be, table, seq)
        row == [id |-> id] @@ new_user
        seq_after == IF be = "postgresql" THEN id ELSE seq
    IN IF \E i \in 1..Len(table) : table[i].email = new_user.email
       THEN [ok |-> FALSE, row |-> <<>>, user_table |-> table,
             user_id_seq |-> seq_after]
       ELSE [ok |-> TRUE, row |-> <<row>>, user_table |-> Append(table, row),
             user_id_seq |-> seq_after]

\* services.new_user_register run from its first line to its last with no
\* other request in between; `fault` is the step that raises, if one does.
services_new_user_register(request, be, table, seq, fault) ==
    LET new_user == models_User(request.username, request.email, "user",
                                request.password)
        stored == InsertUser(be, table, seq, new_user)
    IN IF fault \in {"construct", "add", "commit"}
       THEN [user_table |-> table, user_id_seq |-> seq,
             result |-> RegisterFailed(CauseOf(fault))]
       ELSE IF ~stored.ok
       THEN [user_table |-> stored.user_table, user_id_seq |-> stored.user_id_seq,
             result |-> RegisterFailed(IntegrityError)]
       ELSE IF fault = "refresh"
       THEN [user_table |-> stored.user_table, user_id_seq |-> stored.user_id_seq,
             result |-> RegisterFailed(CauseOf(fault))]
       ELSE [user_table |-> stored.user_table, user_id_seq |-> stored.user_id_seq,
             result |-> Return(stored.row)]

\* A session with no registration in flight.
Idle == [pc |-> "idle", password |-> "", new_user |-> <<>>]

\* ------------------------------------------------------- auth: lookups
\* The steps of a lookup at which the storage can raise, and what it raises.
LookupFaults == {"none", "query"}
OperationalError == "OperationalError"

\* detail="Data not found!"
UserNotFoundDetail == "Data not found!"

\* database.query(models.User).get(user_id): the row of that id, or None.
UserById(table, user_id) ==
    SelectSeq(table, LAMBDA u : u.id = user_id)

\* database.query(models.User).filter(email == ...).first()
FirstByEmail(table, email) ==
    LET found == SelectSeq(table, LAMBDA u : u.email = email)
    IN IF found = <<>> THEN None ELSE <<Head(found)>>

\* The detail of the 500 of get_user_by_id and of get_profile.
GetUserErrorDetail(cause) ==
    "An error occurred while fetching the user by ID: " \o cause
GetProfileErrorDetail(cause) ==
    "An error occurred while fetching the user profile: " \o cause

\* The try block of get_user_by_id: the query, then 404 for no row.
get_user_by_id_try(user_id, table, fault) ==
    IF fault = "query"
    THEN Raise(OperationalError)
    ELSE IF UserById(table, user_id) = <<>>
    THEN HTTPException(HTTP_404_NOT_FOUND, UserNotFoundDetail)
    ELSE Return(UserById(table, user_id))

\* As get_user_by_id_except with no `except HTTPException: raise` clause.
get_user_by_id_except_NoReraise(outcome) ==
    IF outcome.raised
    THEN HTTPException(HTTP_500_INTERNAL_SERVER_ERROR,
                       GetUserErrorDetail(IF outcome.exception = "HTTPException"
                                          THEN outcome.detail
                                          ELSE outcome.exception))
    ELSE outcome

\* The except clauses of get_user_by_id: an HTTPException is raised again as
\* it is, any other exception becomes a 500.
get_user_by_id_except(outcome) ==
    IF outcome.raised /\ outcome.exception = "HTTPException"
    THEN outcome
    ELSE IF outcome.raised
    THEN HTTPException(HTTP_500_INTERNAL_SERVER_ERROR,
                       GetUserErrorDetail(outcome.exception))
    ELSE outcome

\* services.get_user_by_id
services_get_user_by_id(user_id, table, fault) ==
    get_user_by_id_except(get_user_by_id_try(user_id, table, fault))

\* As services_get_profile raising 404 for no row, as get_user_by_id does.
services_get_profile_NotFound(email, table, fault) ==
    IF fault = "query"
    THEN HTTPException(HTTP_500_INTERNAL_SERVER_ERROR,
                       GetProfileErrorDetail(OperationalError))
    ELSE IF FirstByEmail(table, email) = None
    THEN HTTPException(HTTP_404_NOT_FOUND, UserNotFoundDetail)
    ELSE Return(FirstByEmail(table, email))

\* services.get_profile: the first user with the email of the current user,
\* or None; an exception of the query becomes a 500.
services_get_profile(email, table, fault) ==
    IF fault = "query"
    THEN HTTPException(HTTP_500_INTERNAL_SERVER_ERROR,
                       GetProfileErrorDetail(OperationalError))
    ELSE IF FirstByEmail(table, email) = None
    THEN ReturnNone
    ELSE Return(FirstByEmail(table, email))

\* ---------------------------------------------------- auth: credentials
\* hashing.verify_password(digest, plaintext): whether the digest is that of
\* the plaintext (the hashing collaborator of the auth service).
verify_password(hashed_password, plain_password) ==
    hashed_password = get_password_hash(plain_password)

\* As check_password handing the plaintext over as the digest.
check_password_Swapped(user, password) ==
    verify_password(password, user.password)

\* User.check_password
check_password(user, password) ==
    verify_password(user.password, password)

\* The check of a login: the user of the email, 404 with none, else the
\* match result, whether the password is that of the stored digest.
verify_credentials(email, password, table) ==
    IF FirstByEmail(table, email) = None
    THEN HTTPException(HTTP_404_NOT_FOUND, UserNotFoundDetail)
    ELSE Return(<<[match |->
                      check_password(FirstByEmail(table, email)[1], password)]>>)

\* ----------------------------------------------------------- validation
\* As TaskBase_errors with title declared Optional[str].
TaskBase_errors_TitleOptional(body) ==
    {f \in {"description", "status"} : body[f] = None}
       \cup (IF body.dueDate = None THEN {"dueDate"}
             ELSE IF parse_datetime(body.dueDate[1]) = None THEN {"dueDate"}
             ELSE {})

\* As TaskBase_errors with title declared constr(min_length=1).
TaskBase_errors_NonEmptyTitle(body) ==
    {f \in {"title", "description", "status"} : body[f] = None}
       \cup (IF body.title = Some("") THEN {"title"} ELSE {})
       \cup (IF body.dueDate = None THEN {"dueDate"}
             ELSE IF parse_datetime(body.dueDate[1]) = None THEN {"dueDate"}
             ELSE {})

\* The fields of a body that schema.TaskBase refuses: title, description,
\* status (str) and dueDate (datetime) are required, dueDate must parse.
TaskBase_errors(body) ==
    {f \in {"title", "description", "status"} : body[f] = None}
       \cup (IF body.dueDate = None THEN {"dueDate"}
             ELSE IF parse_datetime(body.dueDate[1]) = None THEN {"dueDate"}
             ELSE {})

\* The schema.TaskBase object built from a body with no error; a missing
\* optional text comes out as the empty string of the column.
TaskBase_parse(body) ==
    [id |-> body.id,
     title |-> IF body.title = None THEN "" ELSE body.title[1],
     description |-> IF body.description = None THEN "" ELSE body.description[1],
     status |-> IF body.status = None THEN "" ELSE body.status[1],
     createdDate |-> body.createdDate,
     dueDate |-> parse_datetime(body.dueDate[1])[1]]

\* The answer of the framework to a body the schema refuses.
RequestValidationError ==
    HTTPException(HTTP_422_UNPROCESSABLE_ENTITY, "")

\* POST /task/ from the body to the result: the body is validated against
\* schema.TaskBase before the handler, and with it the service, is called.
post_task(body, be, table, seq, clock) ==
    IF TaskBase_errors(body) # {}
    THEN [task_table |-> table, task_id_seq |-> seq,
          result |-> RequestValidationError]
    ELSE services_create_new_task(TaskBase_parse(body), be, table, seq, clock)

\* The bodies with an error that the clients of the model send: one required
\* field missing, dueDate no timestamp, or all four missing.
Complete == [id |-> None, title |-> Some("T1"), description |-> Some("D1"),
             status |-> Some("pending"), createdDate |-> None,
             dueDate |-> Some("2024-12-05T00:00:00")]
RefusedBodies ==
    {[Complete EXCEPT ![f] = None] : f \in {"title", "description", "status",
                                            "dueDate"}}
       \cup {[Complete EXCEPT !.dueDate = Some("soon")],
             [Complete EXCEPT !.title = None, !.description = None,
                              !.status = None, !.dueDate = None]}

\* The email texts of registration bodies; the last is no email address.
RawEmails == {"a@x.io", "b@x.io", "not-an-email"}

\* pydantic EmailStr: whether the text is an email address.
validate_email(text) ==
    CASE text = "a@x.io" -> TRUE
      [] text = "b@x.io" -> TRUE
      [] OTHER -> FALSE

\* As schema_User_errors with password declared constr(min_length=1).
schema_User_errors_NonEmptyPassword(body) ==
    {f \in {"username", "email", "password"} : body[f] = None}
       \cup (IF body.email # None /\ ~validate_email(body.email[1])
             THEN {"email"} ELSE {})
       \cup (IF body.password = Some("") THEN {"password"} ELSE {})

\* The fields of a body that schema.User refuses: username and password
\* (str) and email (EmailStr) are required, email must be an address.
schema_User_errors(body) ==
    {f \in {"username", "email", "password"} : body[f] = None}
       \cup (IF body.email # None /\ ~validate_email(body.email[1])
             THEN {"email"} ELSE {})

\* The schema.User object built from a body with no error.
schema_User_parse(body) ==
    [username |-> body.username[1], email |-> body.email[1],
     password |-> body.password[1]]

\* The registration bodies with a flaw that the clients of the model send:
\* the password empty, one field missing, or the email malformed.
CompleteUser == [username |-> Some("u1"), email |-> Some("a@x.io"),
                 password |-> Some("pw1")]
FlawedRegisterBodies ==
    {[CompleteUser EXCEPT ![f] = None] : f \in {"username", "email", "password"}}
       \cup {[CompleteUser EXCEPT !.password = Some("")],
             [CompleteUser EXCEPT !.email = Some("not-an-email")]}

\* ------------------------------------------------ update, step by step
\* The payload with no field.
EmptyPatch == [title |-> None, description |-> None, status |-> None,
               dueDate |-> None]

\* A session with no update in flight.
NotUpdating == [pc |-> "idle", task_id |-> 0, request |-> EmptyPatch,
                loaded |-> <<>>, answer |-> <<>>]

\* The attributes of the loaded row that the assignments left with a value
\* other than the one loaded: the columns of the UPDATE the flush sends.
ChangedFields(loaded, assigned) ==
    {f \in {"title", "description", "status", "dueDate"} :
        assigned[f] # loaded[f]}

\* As FlushUpdate writing every assigned attribute, changed or not.
FlushUpdate_WholeRow(table, loaded, assigned) ==
    IF loaded.id \notin StoredIds(table)
    THEN [ok |-> FALSE, task_table |-> table]
    ELSE [ok |-> TRUE, task_table |-> UpdateRow(table, assigned)]

\* database.commit() of a session that holds the row `loaded` with the
\* attribute values of `assigned`: UPDATE task SET <changed columns> WHERE
\* id = <id>, then COMMIT. No column changed: no UPDATE. An UPDATE that
\* matches no row makes the flush raise.
FlushUpdate(table, loaded, assigned) ==
    LET changed == ChangedFields(loaded, assigned)
    IN IF changed = {}
       THEN [ok |-> TRUE, task_table |-> table]
       ELSE IF loaded.id \notin StoredIds(table)
       THEN [ok |-> FALSE, task_table |-> table]
       ELSE [ok |-> TRUE,
             task_table |->
                [i \in 1..Len(table) |->
                   IF table[i].id = loaded.id
                   THEN [f \in DOMAIN table[i] |->
                           IF f \in changed THEN assigned[f] ELSE table[i][f]]
                   ELSE table[i]]]

\* The payloads of the updates that run concurrently.
RacePatches ==
    {[EmptyPatch EXCEPT !.title = Some("T1")],
     [EmptyPatch EXCEPT !.status = Some("pending")],
     [EmptyPatch EXCEPT !.status = Some("completed")],
     [EmptyPatch EXCEPT !.title = Some("T1"), !.status = Some("completed")]}

\* The payload of the creates that precede them.
RaceTasks ==
    {r \in TaskBase : /\ r.id = None /\ r.createdDate = None
                      /\ r.title = "" /\ r.description = "D1"
                      /\ r.status = "pending" /\ r.dueDate = 5}

\* --------------------------------------------------------------- router
\* The answer of the router to a request: the operation and path parameter
\* it answers, the status code, the detail of an HTTPException and the task
\* records of the body.
Response(op, task_id, status_code, detail, body) ==
    [op |-> op, task_id |-> task_id, status_code |-> status_code,
     detail |-> detail, body |-> body]

\* A handler's answer: the status code of its decorator and the returned
\* value, or the status code and detail of the HTTPException raised; any
\* other exception is answered by the server with a plain 500.
Respond(op, task_id, status_code, result) ==
    IF result.raised /\ result.exception = "HTTPException"
    THEN Response(op, task_id, result.status_code, result.detail, <<>>)
    ELSE IF result.raised
    THEN Response(op, task_id, HTTP_500_INTERNAL_SERVER_ERROR,
                  "Internal Server Error", <<>>)
    ELSE Response(op, task_id, status_code, "", result.value)

Init ==
    /\ backend \in Backends
    /\ task_table = <<>>
    /\ task_id_seq = 0
    /\ now = 1
    /\ response = Response("none", 0, 0, "", <<>>)
    /\ returned_ids = {}
    /\ user_table = <<>>
    /\ user_id_seq = 0
    /\ registering = [c \in Clients |-> Idle]
    /\ supplied = {}
    /\ updating = [c \in Clients |-> NotUpdating]
    /\ commit_log = <<>>
    /\ raced = {}

\* POST /task/
create_new_task(request) ==
    LET out == services_create_new_task(request, backend, task_table,
                                        task_id_seq, now)
    IN /\ NextId(backend, task_table, task_id_seq) <= MaxId
       /\ task_table' = out.task_table
       /\ task_id_seq' = out.task_id_seq
       /\ response' = Respond("create", 0, HTTP_201_CREATED, out.result)
       /\ returned_ids' = returned_ids \cup {out.result.value[1].id}
       /\ UNCHANGED <<backend, now>>
       /\ UNCHANGED <<auth_vars, race_vars>>

\* POST /task/ with a body that schema.TaskBase refuses.
create_new_task_refused(body) ==
    LET out == post_task(body, backend, task_table, task_id_seq, now)
    IN /\ TaskBase_errors(body) # {}
       /\ task_table' = out.task_table
       /\ task_id_seq' = out.task_id_seq
       /\ response' = Respond("create", 0, HTTP_201_CREATED, out.result)
       /\ UNCHANGED <<backend, now, returned_ids>>
       /\ UNCHANGED <<auth_vars, race_vars>>

\* GET /task/
task_list ==
    LET out == services_get_task_listing(task_table)
    IN /\ task_table' = out.task_table
       /\ response' = Respond("list", 0, HTTP_200_OK, out.result)
       /\ UNCHANGED <<backend, task_id_seq, now, returned_ids>>
       /\ UNCHANGED <<auth_vars, race_vars>>

\* GET /task/{task_id}
get_task_by_id(task_id) ==
    LET out == services_get_task_by_id(task_id, task_table)
    IN /\ task_table' = out.task_table
       /\ response' = Respond("get", task_id, HTTP_200_OK, out.result)
       /\ UNCHANGED <<backend, task_id_seq, now, returned_ids>>
       /\ UNCHANGED <<auth_vars, race_vars>>

\* DELETE /task/{task_id}
delete_task_by_id(task_id) ==
    LET out == services_delete_task_by_id(task_id, task_table)
    IN /\ task_table' = out.task_table
       /\ response' = Respond("delete", task_id, HTTP_204_NO_CONTENT, out.result)
       /\ raced' = raced \cup {c \in Clients : /\ updating[c].pc = "read"
                                                /\ updating[c].task_id = task_id}
       /\ UNCHANGED <<backend, task_id_seq, now, returned_ids>>
       /\ UNCHANGED <<auth_vars, updating, commit_log>>

\* PATCH /task/{task_id}
update_task_by_id(request, task_id) ==
    LET out == services_update_task_by_id(request, task_id, task_table)
    IN /\ task_table' = Rewritten(backend, task_table, out.task_table)
       /\ response' = Respond("update", task_id, HTTP_200_OK, out.result)
       /\ UNCHANGED <<backend, task_id_seq, now, returned_ids>>
       /\ UNCHANGED <<auth_vars, race_vars>>

\* The server clock moves on between requests.
Tick ==
    /\ now < MaxTime
    /\ now' = now + 1
    /\ UNCHANGED <<backend, task_table, task_id_seq, response, returned_ids>>
    /\ UNCHANGED <<auth_vars, race_vars>>

Next ==
    \/ \E request \in TaskBase : create_new_task(request)
    \/ \E body \in RefusedBodies : create_new_task_refused(body)
    \/ task_list
    \/ \E task_id \in RequestIds : get_task_by_id(task_id)
    \/ \E task_id \in RequestIds : delete_task_by_id(task_id)
    \/ \E request \in PatchBodies, task_id \in RequestIds :
          update_task_by_id(request, task_id)
    \/ Tick

Spec == Init /\ [][Next]_vars

\* ------------------------------------------------- auth: registration steps
\* new_user_register up to database.add: the user is built and pending in
\* the session of client c.
register_add(c, request) ==
    /\ registering[c].pc = "idle"
    /\ registering' = [registering EXCEPT ![c] =
          [pc |-> "added", password |-> request.password,
           new_user |-> <<models_User(request.username, request.email, "user",
                                      request.password)>>]]
    /\ UNCHANGED <<backend, response, task_vars, user_table, user_id_seq,
                   supplied, race_vars>>

\* The registration route with a body as sent: the body is validated against
\* schema.User before new_user_register is called.
register_validated(c, body) ==
    IF schema_User_errors(body) # {}
    THEN /\ registering[c].pc = "idle"
         /\ response' = Respond("register", c, HTTP_201_CREATED,
                                RequestValidationError)
         /\ UNCHANGED <<backend, task_vars, auth_vars, race_vars>>
    ELSE register_add(c, schema_User_parse(body))

\* models.User(...) or database.add raises: rollback of an empty transaction.
register_add_raises(c, fault) ==
    /\ registering[c].pc = "idle"
    /\ fault \in {"construct", "add"}
    /\ response' = Respond("register", c, HTTP_201_CREATED,
                           RegisterFailed(CauseOf(fault)))
    /\ UNCHANGED <<backend, task_vars, auth_vars, race_vars>>

\* database.commit(): the pending user is inserted, or refused as a
\* duplicate, in which case the except branch rolls back and raises 500.
register_commit(c) ==
    /\ registering[c].pc = "added"
    /\ NextId(backend, user_table, user_id_seq) <= MaxUserId
    /\ LET stored == InsertUser(backend, user_table, user_id_seq,
                                registering[c].new_user[1])
       IN /\ user_table' = stored.user_table
          /\ user_id_seq' = stored.user_id_seq
          /\ IF stored.ok
             THEN /\ registering' = [registering EXCEPT ![c] =
                        [@ EXCEPT !.pc = "committed", !.new_user = stored.row]]
                  /\ supplied' = supplied \cup
                        {<<stored.row[1].id, registering[c].password>>}
                  /\ UNCHANGED response
             ELSE /\ registering' = [registering EXCEPT ![c] = Idle]
                  /\ response' = Respond("register", c, HTTP_201_CREATED,
                                         RegisterFailed(IntegrityError))
                  /\ UNCHANGED supplied
    /\ UNCHANGED <<backend, task_vars, race_vars>>

\* database.commit() raises before the row reaches the table.
register_commit_raises(c) ==
    /\ registering[c].pc = "added"
    /\ registering' = [registering EXCEPT ![c] = Idle]
    /\ response' = Respond("register", c, HTTP_201_CREATED,
                           RegisterFailed(CauseOf("commit")))
    /\ UNCHANGED <<backend, task_vars, user_table, user_id_seq, supplied,
                   race_vars>>

\* database.refresh(new_user); return new_user
register_return(c) ==
    /\ registering[c].pc = "committed"
    /\ registering' = [registering EXCEPT ![c] = Idle]
    /\ response' = Respond("register", c, HTTP_201_CREATED,
                           Return(registering[c].new_user))
    /\ UNCHANGED <<backend, task_vars, user_table, user_id_seq, supplied,
                   race_vars>>

\* database.refresh(new_user) raises: the rollback of the except branch finds
\* the transaction already committed.
register_refresh_raises(c) ==
    /\ registering[c].pc = "committed"
    /\ registering' = [registering EXCEPT ![c] = Idle]
    /\ response' = Respond("register", c, HTTP_201_CREATED,
                           RegisterFailed(CauseOf("refresh")))
    /\ UNCHANGED <<backend, task_vars, user_table, user_id_seq, supplied,
                   race_vars>>

\* get_user_by_id(user_id, database), called by the route of the user.
get_user_by_id(user_id, fault) ==
    /\ response' = Respond("get_user", user_id, HTTP_200_OK,
                           services_get_user_by_id(user_id, user_table, fault))
    /\ UNCHANGED <<backend, task_vars, auth_vars, race_vars>>

\* get_profile(database, current_user) for the current user of that email.
get_profile(email, fault) ==
    /\ response' = Respond("profile", 0, HTTP_200_OK,
                           services_get_profile(email, user_table, fault))
    /\ UNCHANGED <<backend, task_vars, auth_vars, race_vars>>

\* A login checks the credentials it was sent.
login(email, password) ==
    /\ response' = Respond("login", 0, HTTP_200_OK,
                           verify_credentials(email, password, user_table))
    /\ UNCHANGED <<backend, task_vars, auth_vars, race_vars>>

AuthNext ==
    \/ \E c \in Clients, request \in RegisterBodies : register_add(c, request)
    \/ \E c \in Clients, fault \in Faults : register_add_raises(c, fault)
    \/ \E c \in Clients : register_commit(c)
    \/ \E c \in Clients : register_commit_raises(c)
    \/ \E c \in Clients : register_return(c)
    \/ \E c \in Clients : register_refresh_raises(c)

AuthSpec == Init /\ [][AuthNext]_vars

\* The same requests with the flawed bodies among them.
ValidatedAuthNext ==
    \/ AuthNext
    \/ \E c \in Clients, body \in FlawedRegisterBodies :
          register_validated(c, body)

ValidatedAuthSpec == Init /\ [][ValidatedAuthNext]_vars

\* new_user_register from its first line to its last, no request in between.
new_user_register(request) ==
    LET out == services_new_user_register(request, backend, user_table,
                                          user_id_seq, "none")
    IN /\ NextId(backend, user_table, user_id_seq) <= MaxUserId
       /\ user_table' = out.user_table
       /\ user_id_seq' = out.user_id_seq
       /\ supplied' = IF out.result.raised THEN supplied
                      ELSE supplied \cup {<<out.result.value[1].id,
                                            request.password>>}
       /\ response' = Respond("register", 0, HTTP_201_CREATED, out.result)
       /\ UNCHANGED <<backend, task_vars, registering, race_vars>>

\* Registrations, and among them the lookups of users and the logins.
LookupNext ==
    \/ \E request \in RegisterBodies : new_user_register(request)
    \/ \E user_id \in 1..MaxUserId, fault \in LookupFaults :
          get_user_by_id(user_id, fault)
    \/ \E email \in Emails, fault \in LookupFaults : get_profile(email, fault)
    \/ \E email \in Emails, password \in Passwords : login(email, password)

LookupSpec == Init /\ [][LookupNext]_vars

\* ------------------------------------------- concurrent update requests
\* PATCH /task/{task_id}, first statement: the session of client c reads the
\* row; with no row the handler ends at once with 404.
update_read(c, request, task_id) ==
    LET task == FirstById(task_table, task_id)
    IN /\ updating[c].pc = "idle"
       /\ IF task = None
          THEN /\ response' = Respond("update", task_id, HTTP_200_OK,
                                      HTTPException(HTTP_404_NOT_FOUND,
                                                    TaskNotFoundDetail))
               /\ UNCHANGED updating
          ELSE /\ updating' = [updating EXCEPT ![c] =
                     [pc |-> "read", task_id |-> task_id, request |-> request,
                      loaded |-> task, answer |-> <<>>]]
               /\ UNCHANGED response
       /\ UNCHANGED <<backend, task_vars, auth_vars, commit_log, raced>>

\* The four assignments and database.commit() of client c.
update_commit(c) ==
    /\ updating[c].pc = "read"
    /\ LET loaded == updating[c].loaded[1]
           flushed == FlushUpdate(task_table, loaded,
                                  AssignFields(loaded, updating[c].request))
       IN /\ task_table' = Rewritten(backend, task_table, flushed.task_table)
          /\ IF flushed.ok
             THEN /\ updating' = [updating EXCEPT ![c].pc = "committed"]
                  /\ commit_log' = Append(commit_log, c)
                  /\ UNCHANGED response
             ELSE /\ updating' = [updating EXCEPT ![c].pc = "done",
                        ![c].answer = <<Respond("update", updating[c].task_id,
                                                HTTP_200_OK,
                                                Raise("StaleDataError"))>>]
                  /\ response' = Respond("update", updating[c].task_id,
                                         HTTP_200_OK, Raise("StaleDataError"))
                  /\ UNCHANGED commit_log
    /\ UNCHANGED <<backend, task_id_seq, now, returned_ids, auth_vars, raced>>

\* database.refresh(task); return task: the row is read again and answered.
update_return(c) ==
    /\ updating[c].pc = "committed"
    /\ LET task == FirstById(task_table, updating[c].task_id)
           answer == Respond("update", updating[c].task_id, HTTP_200_OK,
                             IF task = None
                             THEN Raise("InvalidRequestError")
                             ELSE Return(task))
       IN /\ updating' = [updating EXCEPT ![c].pc = "done",
                                          ![c].answer = <<answer>>]
          /\ response' = answer
    /\ UNCHANGED <<backend, task_vars, auth_vars, commit_log, raced>>

RaceNext ==
    \/ \E request \in RaceTasks : create_new_task(request)
    \/ \E c \in Clients, request \in RacePatches, task_id \in RequestIds :
          update_read(c, request, task_id)
    \/ \E c \in Clients : update_commit(c)
    \/ \E c \in Clients : update_return(c)

RaceSpec == Init /\ [][RaceNext]_vars

\* The same requests with deletes among them.
DeleteRaceNext ==
    \/ \E request \in RaceTasks : create_new_task(request)
    \/ \E c \in Clients, request \in RacePatches, task_id \in RequestIds :
          update_read(c, request, task_id)
    \/ \E c \in Clients : update_commit(c)
    \/ \E c \in Clients : update_return(c)
    \/ \E task_id \in RequestIds : delete_task_by_id(task_id)

DeleteRaceSpec == Init /\ [][DeleteRaceNext]_vars

\* -------------------------------------------------- storage failures
\* The payloads of the creates of the runs in which the storage can fail.
FaultTasks ==
    {r \in TaskBase : /\ r.id = None /\ r.createdDate = None
                      /\ r.status = "pending" /\ r.dueDate = 5}

\* POST /task/ in which database.add or database.commit raises.
create_new_task_raises(request, fault) ==
    LET out == services_create_new_task_raises(request, backend, task_table,
                                               task_id_seq, now, fault)
    IN /\ NextId(backend, task_table, task_id_seq) <= MaxId
       /\ task_table' = out.task_table
       /\ task_id_seq' = out.task_id_seq
       /\ response' = Respond("create", 0, HTTP_201_CREATED, out.result)
       /\ UNCHANGED <<backend, now, returned_ids>>
       /\ UNCHANGED <<auth_vars, race_vars>>

FaultNext ==
    \/ \E request \in FaultTasks : create_new_task(request)
    \/ \E request \in FaultTasks, fault \in CreateFaults :
          create_new_task_raises(request, fault)
    \/ task_list
    \/ \E task_id \in RequestIds : get_task_by_id(task_id)
    \/ \E task_id \in RequestIds : delete_task_by_id(task_id)
    \/ Tick

FaultSpec == Init /\ [][FaultNext]_vars

\* ===================================================================
\* Properties of the task service
\* ===================================================================
\* What the session holds for the next request.
CreateOutcome(request) ==
    services_create_new_task(request, backend, task_table, task_id_seq, now)
Rows(table) == {table[i] : i \in 1..Len(table)}
\* The ids a path parameter is taken from in the properties: every id the
\* storage can hand out and one it never does.
PathIds == 1..(MaxId + 1)
TextFields == {"title", "description", "status"}
Fields == TextFields \cup {"dueDate"}

\* C1: the id returned by a successful create is different from the id of
\* every stored task and from every id an earlier create returned (ids of
\* tasks deleted since included), and does not depend on the id of the
\* payload.
C1_CreateIdNeverSeenBefore ==
    [][\A request \in TaskBase :
          create_new_task(request) =>
             LET id == response'.body[1].id
             IN /\ id \notin StoredIds(task_table)
                /\ id \notin returned_ids
                /\ id = CreateOutcome([request EXCEPT !.id = None]).result.value[1].id
      ]_vars

\* C2: the createdDate of the task create returns and stores is the reading
\* of the server clock at the call, whatever createdDate the payload carries;
\* no stored createdDate is a value a client supplied.
C2_CreatedDateIsServerClock ==
    /\ \A request \in TaskBase :
          LET out == CreateOutcome(request)
          IN /\ out.result.value[1].createdDate = now
             /\ out.task_table[Len(out.task_table)].createdDate = now
    /\ \A t \in Rows(task_table) : Some(t.createdDate) \notin ClientCreatedDates

\* C2 witness: a create answered after the clock had moved on, with the moved
\* reading as createdDate.
C2_Witness ==
    /\ response.op = "create"
    /\ response.status_code = HTTP_201_CREATED
    /\ response.body[1].createdDate = 2
    /\ response.body[1] \in Rows(task_table)

C4_GetByIdFoundOrNotFound ==
    \A task_id \in PathIds :
       LET out == services_get_task_by_id(task_id, task_table)
           got == Respond("get", task_id, HTTP_200_OK, out.result)
       IN /\ out.task_table = task_table
          /\ IF \E t \in Rows(task_table) : t.id = task_id
             THEN /\ got.status_code = 200
                  /\ Len(got.body) = 1
                  /\ got.body[1] \in Rows(task_table)
                  /\ got.body[1].id = task_id
             ELSE /\ got.status_code = 404
                  /\ got.detail = "task Not Found !"
                  /\ got.body = <<>>

\* C4 witness: getById has answered 404 for an absent id while another task
\* is stored.
C4_Witness ==
    /\ response.op = "get"
    /\ response.status_code = 404
    /\ response.task_id \notin StoredIds(task_table)
    /\ task_table # <<>>

\* C5: update of an id that is not stored answers 404 for every payload and
\* leaves storage as it was.
C5_UpdateAbsentIsNotFound ==
    \A task_id \in PathIds \ StoredIds(task_table) :
       \A request \in TaskUpdate :
          LET out == services_update_task_by_id(request, task_id, task_table)
              answer == Respond("update", task_id, HTTP_200_OK, out.result)
          IN /\ answer.status_code = 404
             /\ answer.detail = "task Not Found !"
             /\ out.task_table = task_table

\* C5 witness: an update has answered 404 while a task is stored.
C5_Witness ==
    /\ response.op = "update"
    /\ response.status_code = 404
    /\ response.task_id \notin StoredIds(task_table)
    /\ task_table # <<>>

\* C6: delete of an id that is not stored answers 204 with no error, the
\* answer an existing id gets, and leaves the stored tasks as they were.
C6_DeleteAbsentSucceeds ==
    \A task_id \in PathIds \ StoredIds(task_table) :
       LET out == services_delete_task_by_id(task_id, task_table)
           answer == Respond("delete", task_id, HTTP_204_NO_CONTENT, out.result)
       IN /\ answer.status_code = 204
          /\ answer.detail = ""
          /\ answer.body = <<>>
          /\ out.task_table = task_table
          /\ \A other \in StoredIds(task_table) :
                LET there == Respond("delete", other, HTTP_204_NO_CONTENT,
                                services_delete_task_by_id(other, task_table).result)
                IN /\ there.status_code = answer.status_code
                   /\ there.detail = answer.detail
                   /\ there.body = answer.body

\* C6 witness: delete has answered 204 for an id no create ever returned,
\* with a task stored.
C6_Witness ==
    /\ response.op = "delete"
    /\ response.status_code = 204
    /\ response.task_id \notin returned_ids
    /\ task_table # <<>>

\* C7: delete is idempotent: from every storage state and for every id, two
\* deletes in a row both answer 204 and the second leaves storage as the
\* first left it.
C7_DeleteIdempotent ==
    \A task_id \in PathIds :
       LET first == services_delete_task_by_id(task_id, task_table)
           second == services_delete_task_by_id(task_id, first.task_table)
           answer1 == Respond("delete", task_id, HTTP_204_NO_CONTENT, first.result)
           answer2 == Respond("delete", task_id, HTTP_204_NO_CONTENT, second.result)
       IN /\ answer1.status_code = 204
          /\ answer2 = answer1
          /\ second.task_table = first.task_table

\* C7 witness: a delete has removed the only stored task; the next delete of
\* that id meets an empty table.
C7_Witness ==
    /\ response.op = "delete"
    /\ response.task_id \in returned_ids
    /\ task_table = <<>>

\* C8: after delete(id) of a stored task the task is gone: getById(id)
\* answers 404 and list() holds no task with that id.
C8_DeletedTaskIsGone ==
    \A task_id \in StoredIds(task_table) :
       LET out == services_delete_task_by_id(task_id, task_table)
           got == Respond("get", task_id, HTTP_200_OK,
                          services_get_task_by_id(task_id, out.task_table).result)
           listing == Respond("list", 0, HTTP_200_OK,
                              services_get_task_listing(out.task_table).result)
       IN /\ got.status_code = 404
          /\ \A i \in 1..Len(listing.body) : listing.body[i].id # task_id

\* C8 witness: a delete has removed a created task and left another stored.
C8_Witness ==
    /\ response.op = "delete"
    /\ response.task_id \in returned_ids \ StoredIds(task_table)
    /\ task_table # <<>>

\* The row of `table` with id `task_id` (ids are unique in the table).
RowOf(table, task_id) == Head(SelectSeq(table, LAMBDA t : t.id = task_id))

\* C9: partial update law: for a stored task and a payload that supplies
\* non-empty values for the fields of S and nothing else, update answers 200,
\* sets exactly the fields of S to the supplied values and leaves every other
\* field (id and createdDate included) as it was; with S empty the task comes
\* back unchanged.
C9_PartialUpdateLaw ==
    \A task_id \in StoredIds(task_table) :
       \A request \in TaskUpdate :
          (\A f \in TextFields : request[f] # Some("")) =>
             LET S == Present(request)
                 old == RowOf(task_table, task_id)
                 out == services_update_task_by_id(request, task_id, task_table)
                 answer == Respond("update", task_id, HTTP_200_OK, out.result)
                 new == RowOf(out.task_table, task_id)
             IN /\ answer.status_code = 200
                /\ answer.body = <<new>>
                /\ \A f \in Fields :
                      new[f] = IF f \in S THEN request[f][1] ELSE old[f]
                /\ new.id = old.id
                /\ new.createdDate = old.createdDate
                /\ S = {} => new = old /\ out.task_table = task_table

\* C9 witness: an update has answered 200 with a task whose text fields are
\* all set, as a payload of non-empty values leaves it.
C9_Witness ==
    /\ response.op = "update"
    /\ response.status_code = 200
    /\ response.body[1] \in Rows(task_table)
    /\ response.body[1].title = "T1"
    /\ response.body[1].status = "completed"

\* The payload with every falsy field taken out.
WithoutFalsy(request) ==
    [request EXCEPT !.title = IF @ = Some("") THEN None ELSE @,
                    !.description = IF @ = Some("") THEN None ELSE @,
                    !.status = IF @ = Some("") THEN None ELSE @]

\* C10: in update a field present with a falsy value counts as absent: the
\* outcome is that of the payload without it, and no update turns a stored
\* non-empty text field into the empty string.
C10_FalsyFieldIsNoChange ==
    \A task_id \in StoredIds(task_table) :
       \A request \in TaskUpdate :
          LET old == RowOf(task_table, task_id)
              out == services_update_task_by_id(request, task_id, task_table)
              new == RowOf(out.task_table, task_id)
          IN /\ (\E f \in TextFields : request[f] = Some("")) =>
                   out = services_update_task_by_id(WithoutFalsy(request),
                                                    task_id, task_table)
             /\ \A f \in TextFields :
                   /\ request[f] = Some("") => new[f] = old[f]
                   /\ old[f] # "" => new[f] # ""

\* C10 witness: an update has answered 200 for a task whose title and
\* description are set while its status is still empty.
C10_Witness ==
    /\ response.op = "update"
    /\ response.status_code = 200
    /\ response.body[1] \in Rows(task_table)
    /\ response.body[1].title # ""
    /\ response.body[1].description # ""
    /\ response.body[1].status = ""

\* C11: list() answers 200 with a list, never None, that holds exactly the
\* stored tasks, each once, as getById gives them; the stored tasks are the
\* tasks created and not deleted: a create adds its task to the listing, a
\* delete takes the task with the id out of it, an update puts the updated
\* record in the place of the old one; on an empty table the list is empty.
C11_ListIsExactlyTheLiveTasks ==
    LET ListOf(table) == services_get_task_listing(table).result
        listed == ListOf(task_table)
        answer == Respond("list", 0, HTTP_200_OK, listed)
    IN /\ ~listed.raised /\ ~listed.is_none
       /\ answer.status_code = 200
       /\ services_get_task_listing(task_table).task_table = task_table
       /\ Len(answer.body) = Cardinality(StoredIds(task_table))
       /\ {answer.body[i].id : i \in 1..Len(answer.body)} \subseteq returned_ids
       /\ \A i \in 1..Len(answer.body) :
             services_get_task_by_id(answer.body[i].id, task_table).result.value
                = <<answer.body[i]>>
       /\ \A task_id \in StoredIds(task_table) :
             \E i \in 1..Len(answer.body) : answer.body[i].id = task_id
       /\ task_table = <<>> => answer.body = <<>>
       /\ \A request \in TaskBase :
             LET out == CreateOutcome(request)
             IN ListOf(out.task_table).value = Append(listed.value, out.result.value[1])
       /\ \A task_id \in PathIds :
             LET out == services_delete_task_by_id(task_id, task_table)
             IN ListOf(out.task_table).value
                   = SelectSeq(listed.value, LAMBDA t : t.id # task_id)
       /\ \A task_id \in StoredIds(task_table) :
             \A request \in PatchBodies :
                LET out == services_update_task_by_id(request, task_id, task_table)
                    after == ListOf(Rewritten(backend, task_table,
                                              out.task_table)).value
                IN /\ Len(after) = Len(listed.value)
                   /\ Rows(after) = (Rows(listed.value)
                                        \ {RowOf(task_table, task_id)})
                                       \cup {out.result.value[1]}

\* C11 witness: list() has answered with one task after two were created and
\* the other one deleted.
C11_Witness ==
    /\ response.op = "list"
    /\ response.status_code = 200
    /\ Len(response.body) = 1
    /\ Cardinality(returned_ids) = 2
    /\ response.body = task_table

\* C13: a create body that lacks title, description, status or dueDate, or
\* whose dueDate is no timestamp, is answered 422 before the service runs:
\* the table and the id sequence are as they were, no task is inserted; a
\* body with the four fields and a timestamp is not refused.
C13_InvalidCreateIsRejected ==
    \A body \in RawTaskBase :
       LET out == post_task(body, backend, task_table, task_id_seq, now)
           answer == Respond("create", 0, HTTP_201_CREATED, out.result)
           invalid == \/ \E f \in Fields : body[f] = None
                      \/ body.dueDate = Some("soon")
       IN IF invalid
          THEN /\ answer.status_code = 422
               /\ answer.body = <<>>
               /\ out.task_table = task_table
               /\ out.task_id_seq = task_id_seq
          ELSE /\ answer.status_code = 201
               /\ Len(out.task_table) = Len(task_table) + 1

\* C13 witness: a refused create has been answered 422 with a task stored.
C13_Witness ==
    /\ response.op = "create"
    /\ response.status_code = 422
    /\ task_table # <<>>

\* C14: createdDate is write-once: no request changes the createdDate of a
\* task that is stored before and after it (a task stored in both states was
\* not deleted in between), and update leaves the createdDate of every stored
\* task as it is for every payload.
C14_CreatedDateWriteOnce ==
    /\ [](\A task_id \in StoredIds(task_table) :
            \A request \in TaskUpdate :
               RowOf(services_update_task_by_id(request, task_id,
                                                task_table).task_table,
                     task_id).createdDate
                  = RowOf(task_table, task_id).createdDate)
    /\ [][\A task_id \in StoredIds(task_table) \cap StoredIds(task_table') :
             RowOf(task_table', task_id).createdDate
                = RowOf(task_table, task_id).createdDate]_vars

\* C14 witness: an update has answered with a task that still carries the
\* createdDate 1 of its creation, at a later reading of the clock and with a
\* dueDate and a status an update gave it.
C14_Witness ==
    /\ response.op = "update"
    /\ response.status_code = 200
    /\ response.body[1].createdDate = 1
    /\ now = 2
    /\ response.body[1] \in Rows(task_table)

\* C15: a task id moves nonexistent -> existing -> deleted and never back:
\* an id that a create returned and that is stored no more (its task was
\* deleted) is not the id of a stored task after any further request.
C15_DeletedIdStaysDeleted ==
    [][\A task_id \in returned_ids \ StoredIds(task_table) :
          task_id \notin StoredIds(task_table')]_vars

\* C17: when add or commit raises during create, the caller gets a tagged
\* error (an HTTPException of the service, not the exception as the storage
\* raised it), the table holds no trace of the task, and the requests that
\* follow find the storage as it was before the failed create.
C17_CreateFailureIsTaggedAndRolledBack ==
    [][\A request \in FaultTasks, fault \in CreateFaults :
          create_new_task_raises(request, fault) =>
             LET out == services_create_new_task_raises(
                           request, backend, task_table, task_id_seq, now, fault)
             IN /\ out.result.raised
                /\ out.result.exception = "HTTPException"
                /\ task_table' = task_table
                /\ services_get_task_listing(task_table').result
                      = services_get_task_listing(task_table).result
      ]_vars

\* The create body with the three texts empty and that dueDate text.
EmptyTexts(due) ==
    [id |-> None, title |-> Some(""), description |-> Some(""),
     status |-> Some(""), createdDate |-> None, dueDate |-> Some(due)]

\* C25: empty strings are valid text for create: a body with title "",
\* description "" and status "" and a dueDate that parses is not refused, is
\* answered 201, and the task stored and returned carries the empty strings.
C25_EmptyStringsAreStored ==
    \A due \in RawDueDates :
       parse_datetime(due) # None
          => LET body == EmptyTexts(due)
                 out == post_task(body, backend, task_table, task_id_seq, now)
                 answer == Respond("create", 0, HTTP_201_CREATED, out.result)
             IN /\ TaskBase_errors(body) = {}
                /\ answer.status_code = HTTP_201_CREATED
                /\ Len(answer.body) = 1
                /\ \A f \in TextFields : answer.body[1][f] = ""
                /\ answer.body[1].dueDate = parse_datetime(due)[1]
                /\ Len(out.task_table) = Len(task_table) + 1
                /\ out.task_table[Len(out.task_table)] = answer.body[1]

\* C25 witness: a create with the three texts empty has been answered 201
\* and its task is stored with the empty strings.
C25_Witness ==
    /\ response.op = "create"
    /\ response.status_code = HTTP_201_CREATED
    /\ \A f \in TextFields : response.body[1][f] = ""
    /\ response.body[1] \in Rows(task_table)

\* Whether the createdDate of the tasks never falls along the sequence.
Chronological(tasks) ==
    \A i \in 1..(Len(tasks) - 1) : tasks[i + 1].createdDate >= tasks[i].createdDate

Others(table, task_id) == {t \in Rows(table) : t.id # task_id}

\* C30: update and delete touch only the task of the id given: every other
\* stored task keeps its id and all its field values, update leaves the
\* number of stored tasks and the id of the task it updates as they are,
\* and delete takes at most one task out of the table.
C30_OnlyTheGivenTaskIsAffected ==
    /\ [](\A task_id \in PathIds :
            /\ \A request \in PatchBodies :
                  LET out == services_update_task_by_id(request, task_id,
                                                        task_table)
                      after == Rewritten(backend, task_table, out.task_table)
                  IN /\ Len(after) = Len(task_table)
                     /\ StoredIds(after) = StoredIds(task_table)
                     /\ Others(after, task_id) = Others(task_table, task_id)
                     /\ ~out.result.raised => out.result.value[1].id = task_id
            /\ LET out == services_delete_task_by_id(task_id, task_table)
               IN /\ Len(task_table) - Len(out.task_table) \in {0, 1}
                  /\ Others(out.task_table, task_id) = Others(task_table, task_id)
                  /\ Rows(out.task_table) \subseteq Rows(task_table))
    /\ [][(response'.op \in {"update", "delete"} /\ task_table' # task_table)
            => /\ Others(task_table', response'.task_id)
                     = Others(task_table, response'.task_id)
               /\ response'.op = "update"
                     => /\ Len(task_table') = Len(task_table)
                        /\ StoredIds(task_table') = StoredIds(task_table)
               /\ response'.op = "delete"
                     => Len(task_table') = Len(task_table) - 1]_vars

\* C30 witness: with two tasks stored an update of one has been answered 200
\* with values the other task does not have.
C30_Witness ==
    /\ response.op = "update"
    /\ response.status_code = HTTP_200_OK
    /\ Len(task_table) = 2
    /\ response.body[1] \in Rows(task_table)
    /\ \E t \in Others(task_table, response.task_id) :
          /\ t.title # response.body[1].title
          /\ t.status # response.body[1].status

\* ===================================================================
\* Properties of the auth service
\* ===================================================================
\* register(request) run in the state the storage is in.
RegisterOutcome(request, fault) ==
    services_new_user_register(request, backend, user_table, user_id_seq, fault)
Users(table) == {table[i] : i \in 1..Len(table)}
StoredEmails(table) == {table[i].email : i \in 1..Len(table)}

\* C12: registering a user with an email a stored user has fails with
\* Conflict (409), stores no second user with the email and leaves the stored
\* users, the first one among them, as they were.
C12_DuplicateEmailIsConflict ==
    \A request \in schema_User :
       request.email \in StoredEmails(user_table) =>
          LET out == RegisterOutcome(request, "none")
          IN /\ out.result.raised
             /\ out.result.status_code = 409
             /\ out.user_table = user_table

\* C18: when a step of register raises (building the user, add, commit or
\* refresh), the caller is answered 500 with a detail that carries the
\* cause, and the stored users are those of before the call: the step leaves
\* the table as it is and the user of the call is not in it.
C18_RegisterFailureLeavesUsersUnchanged ==
    [][\A c \in Clients :
          ((\E fault \in Faults : register_add_raises(c, fault))
              \/ register_commit_raises(c) \/ register_refresh_raises(c)) =>
             /\ response'.status_code = 500
             /\ \E fault \in Faults \ {"none"} :
                   response'.detail = RegisterErrorDetail(CauseOf(fault))
             /\ user_table' = user_table
             /\ \A i \in 1..Len(registering[c].new_user) :
                   registering[c].new_user[i] \notin Users(user_table')
      ]_vars

\* C19: the password of every stored user, and of every user pending in a
\* session, is the digest the hashing collaborator gives for the password
\* supplied at registration, and is neither that password nor any other
\* plaintext password.
C19_StoredPasswordIsDigest ==
    /\ \A i \in 1..Len(user_table) :
          /\ user_table[i].password \notin Passwords
          /\ \E entry \in supplied :
                /\ entry[1] = user_table[i].id
                /\ user_table[i].password = get_password_hash(entry[2])
                /\ user_table[i].password # entry[2]
    /\ \A c \in Clients :
          \A i \in 1..Len(registering[c].new_user) :
             /\ registering[c].new_user[i].password
                   = get_password_hash(registering[c].password)
             /\ registering[c].new_user[i].password # registering[c].password

\* C19 witness: two users are stored who registered with different passwords.
C19_Witness ==
    /\ Len(user_table) = 2
    /\ {entry[2] : entry \in supplied} = Passwords

\* C20: no two stored users have the same email, and of two registrations
\* in flight at the same time with the same email at most one has committed.
C20_EmailUnique ==
    /\ \A i, j \in 1..Len(user_table) :
          i # j => user_table[i].email # user_table[j].email
    /\ \A c1, c2 \in Clients :
          (c1 # c2 /\ registering[c1].pc = "committed"
                   /\ registering[c2].pc = "committed") =>
             registering[c1].new_user[1].email # registering[c2].new_user[1].email

\* C20 witness: while the registration of one client has committed and not
\* yet returned, another client's registration with the same email has been
\* refused at its commit.
C20_Witness ==
    /\ response.op = "register"
    /\ response.detail = RegisterErrorDetail(IntegrityError)
    /\ \E c \in Clients :
          /\ registering[c].pc = "committed"
          /\ c # response.task_id
    /\ Len(user_table) = 1

\* C21: get_profile never raises for want of a user: with no stored user of
\* the current user's email it returns None, with one it returns that user,
\* while get_user_by_id raises 404 for an id that is not stored.
C21_ProfileAbsentIsNoneNotError ==
    /\ \A email \in Emails :
          LET result == services_get_profile(email, user_table, "none")
          IN /\ ~result.raised
             /\ IF email \in StoredEmails(user_table)
                THEN /\ ~result.is_none
                     /\ Len(result.value) = 1
                     /\ result.value[1] \in Users(user_table)
                     /\ result.value[1].email = email
                ELSE /\ result.is_none
                     /\ result.value = <<>>
    /\ \A user_id \in 1..MaxUserId :
          (\A u \in Users(user_table) : u.id # user_id)
             => LET result == services_get_user_by_id(user_id, user_table, "none")
                IN result.raised /\ result.status_code = HTTP_404_NOT_FOUND
    /\ (response.op = "profile" /\ response.status_code = HTTP_200_OK)
          => \/ response.body = <<>>
             \/ response.body[1] \in Users(user_table)

\* Users are stored and a profile lookup has answered with no user and no error.
C21_Witness ==
    /\ response.op = "profile"
    /\ response.status_code = HTTP_200_OK
    /\ response.body = <<>>
    /\ user_table # <<>>
    /\ \E email \in Emails : email \notin StoredEmails(user_table)

\* C22: get_user_by_id returns the stored user of the id, raises 404
\* "Data not found!" when none is stored, and turns only the exceptions of
\* the storage into 500: the 404 raised inside the try block stays a 404.
C22_GetUserByIdFoundOr404 ==
    /\ \A user_id \in 1..MaxUserId :
          LET result == services_get_user_by_id(user_id, user_table, "none")
              failed == services_get_user_by_id(user_id, user_table, "query")
          IN /\ IF \E u \in Users(user_table) : u.id = user_id
                THEN /\ ~result.raised
                     /\ Len(result.value) = 1
                     /\ result.value[1] \in Users(user_table)
                     /\ result.value[1].id = user_id
                ELSE /\ result.raised
                     /\ result.exception = "HTTPException"
                     /\ result.status_code = HTTP_404_NOT_FOUND
                     /\ result.status_code # HTTP_500_INTERNAL_SERVER_ERROR
                     /\ result.detail = UserNotFoundDetail
             /\ failed.raised
             /\ failed.status_code = HTTP_500_INTERNAL_SERVER_ERROR
    /\ response.op = "get_user"
          => \/ /\ response.status_code = HTTP_200_OK
                /\ response.body[1] \in Users(user_table)
                /\ response.body[1].id = response.task_id
             \/ /\ response.status_code = HTTP_404_NOT_FOUND
                /\ response.detail = UserNotFoundDetail
             \/ /\ response.status_code = HTTP_500_INTERNAL_SERVER_ERROR
                /\ response.detail = GetUserErrorDetail(OperationalError)

\* A lookup of an id that is not stored, among stored users, was answered 404.
C22_Witness ==
    /\ response.op = "get_user"
    /\ response.status_code = HTTP_404_NOT_FOUND
    /\ response.detail = UserNotFoundDetail
    /\ user_table # <<>>

\* C23: checking credentials raises 404 when no user has the email; else it
\* answers TRUE for the password the user registered with and FALSE for every
\* other one, and a login leaves the stored users and sessions as they were
\* and answers with that boolean alone.
C23_VerifyCredentials ==
    /\ [](\A email \in Emails, password \in Passwords :
            LET result == verify_credentials(email, password, user_table)
            IN IF email \notin StoredEmails(user_table)
               THEN /\ result.raised
                    /\ result.status_code = HTTP_404_NOT_FOUND
               ELSE /\ ~result.raised
                    /\ \E u \in Users(user_table) :
                          /\ u.email = email
                          /\ result.value =
                               <<[match |-> <<u.id, password>> \in supplied]>>)
    /\ [][(response'.op = "login" /\ response' # response)
            => /\ UNCHANGED <<user_table, user_id_seq, registering, supplied>>
               /\ \/ /\ response'.status_code = HTTP_200_OK
                     /\ response'.body \in {<<[match |-> TRUE]>>,
                                           <<[match |-> FALSE]>>}
                  \/ /\ response'.status_code = HTTP_404_NOT_FOUND
                     /\ response'.body = <<>>
                     /\ \E email \in Emails :
                           email \notin StoredEmails(user_table)]_vars

\* Logins of a registered user have been answered: this one with FALSE, for
\* a password other than the registered one.
C23_Witness ==
    /\ response.op = "login"
    /\ response.status_code = HTTP_200_OK
    /\ response.body = <<[match |-> FALSE]>>
    /\ user_table # <<>>

\* C24: a registration body is accepted only with a text username, a valid
\* email address and a non-empty password: a body with the password empty, a
\* field missing or the email malformed is answered 422 and no user is
\* created from it, so no stored user was registered with an empty password.
C24_FlawedRegistrationIsRefused ==
    /\ [](\A entry \in supplied : entry[2] # "")
    /\ [][\A c \in Clients, body \in FlawedRegisterBodies :
            register_validated(c, body)
               => /\ response'.status_code = HTTP_422_UNPROCESSABLE_ENTITY
                  /\ UNCHANGED <<user_table, user_id_seq, registering>>]_vars

\* ===================================================================
\* Properties of concurrent requests
\* ===================================================================
\* C16: when the updates of two clients for the same stored task have both
\* been answered, both were answered 200 and, for every field both payloads
\* supply, the stored value is the one supplied by the update that committed
\* last.
C16_LastCommitWins ==
    \A c1, c2 \in Clients :
       (/\ c1 # c2
        /\ updating[c1].pc = "done" /\ updating[c2].pc = "done"
        /\ updating[c1].task_id = updating[c2].task_id
        /\ commit_log # <<>>
        /\ commit_log[Len(commit_log)] = c2) =>
          /\ updating[c1].answer[1].status_code = 200
          /\ updating[c2].answer[1].status_code = 200
          /\ \A f \in TextFields :
                (TruthyStr(updating[c1].request[f])
                    /\ TruthyStr(updating[c2].request[f])) =>
                   RowOf(task_table, updating[c2].task_id)[f]
                      = updating[c2].request[f][1]

\* C28: an update whose row is deleted between its read and its commit does
\* not bring the task back: once the update is answered no task with the id
\* is stored and getById of the id answers 404, in every later state; and
\* neither the commit nor the refresh of an update adds an id to the table.
C28_UpdateDoesNotRecreate ==
    /\ [](\A c \in raced :
            updating[c].pc = "done"
               => /\ updating[c].task_id \notin StoredIds(task_table)
                  /\ Respond("get", updating[c].task_id, HTTP_200_OK,
                             services_get_task_by_id(updating[c].task_id,
                                                     task_table).result).status_code
                        = HTTP_404_NOT_FOUND)
    /\ [][\A c \in Clients :
            (updating[c].pc # updating'[c].pc /\ updating[c].pc # "idle")
               => StoredIds(task_table') \subseteq StoredIds(task_table)]_vars


\* The fields an update payload supplies with a value that is assigned.
Supplied(request) ==
    {f \in TextFields : TruthyStr(request[f])}
       \cup (IF TruthyDate(request.dueDate) THEN {"dueDate"} ELSE {})

\* C29: when the updates of two clients for the same stored task supply
\* disjoint sets of fields and each read the row before the other committed,
\* then once both are answered both answers are 200 and the stored task
\* carries, for every field either payload supplies, the value supplied
\* (a field that the update of a third client supplies as well is left out:
\* that is no field of two disjoint updates).
C29_DisjointUpdatesBothSurvive ==
    \A c1, c2 \in Clients :
       (/\ c1 # c2
        /\ updating[c1].pc = "done" /\ updating[c2].pc = "done"
        /\ updating[c1].task_id = updating[c2].task_id
        /\ updating[c1].loaded = updating[c2].loaded
        /\ Supplied(updating[c1].request) \cap Supplied(updating[c2].request) = {})
          => /\ updating[c1].answer[1].status_code = HTTP_200_OK
             /\ updating[c2].answer[1].status_code = HTTP_200_OK
             /\ \A c \in {c1, c2} :
                   \A f \in Supplied(updating[c].request) :
                      (\A c3 \in Clients \ {c1, c2} :
                          \/ updating[c3].task_id # updating[c].task_id
                          \/ f \notin Supplied(updating[c3].request))
                         => RowOf(task_table, updating[c].task_id)[f]
                               = updating[c].request[f][1]

\* C29 witness: two updates that read the same row, one supplying the title
\* and the other the status, have both committed and been answered, and the
\* stored row carries the title of the one and the status of the other.
C29_Witness ==
    \E c1, c2 \in Clients :
       /\ c1 # c2
       /\ updating[c1].pc = "done" /\ updating[c2].pc = "done"
       /\ updating[c1].task_id = updating[c2].task_id
       /\ updating[c1].loaded = updating[c2].loaded
       /\ Supplied(updating[c1].request) = {"title"}
       /\ Supplied(updating[c2].request) = {"status"}
       /\ Len(commit_log) = 2
       /\ updating[c1].loaded[1].title # updating[c1].request.title[1]
       /\ updating[c2].loaded[1].status # updating[c2].request.status[1]
       /\ RowOf(task_table, updating[c1].task_id).title
             = updating[c1].request.title[1]
       /\ RowOf(task_table, updating[c1].task_id).status
             = updating[c2].request.status[1]

====
